---- MODULE Spec2Model ----
(***************************************************************************)
(* CarBrain_rag: the retrieval core (app/rag_processor.py), its HTTP       *)
(* handler (app/main.py), the PDF loader (app/document_loader.py), the     *)
(* document downloader (app/download_docs.py) and the chat page            *)
(* (app/streamlit_app.py).                                                 *)
(*                                                                         *)
(* A Python str is a sequence of runs <<character, count>> in canonical    *)
(* form (adjacent runs differ, counts >= 1), so that documents of a few    *)
(* thousand characters stay small in a state.  Operators that look at      *)
(* characters work on the expanded sequence, a chunk being the span        *)
(* <<lo, hi>> (1-based, inclusive) of the document it was cut from.        *)
(***************************************************************************)
EXTENDS Integers, Sequences, FiniteSets, TLC

VARIABLES
    text,          \* chunker run: the document text handed to split_text
    chunks,        \* chunker run: [done, spans], the chunks split_text returned
    index,         \* search run: the vectors of an index, in insertion order
    qvec,          \* search run: the query vector
    topk,          \* search run: k
    hits,          \* search run: [done, ids], the entries the search returned
    vectorstore,   \* main.py: the module global `vectorstore` read by /ask
    ingest,        \* a run of RAGProcessor.process_documents and where it stands
    last,          \* the last /ask request: what it saw and what it answered
    pdf,           \* loader run: the PDF and what partition_pdf yields for it
    loaded,        \* loader run: what load_pdf_with_tables_images gave back
    headers,       \* downloader: session.headers, the 'User-Agent' entry
    downloader,    \* downloader: where download_all_documents stands
    session_state, \* chat page: st.session_state of one browser session
    turns          \* chat page: what the backend did for each submitted prompt

chunkVars == <<text, chunks>>
searchVars == <<index, qvec, topk, hits>>
serviceVars == <<vectorstore, ingest, last>>
loaderVars == <<pdf, loaded>>
downloadVars == <<headers, downloader>>
chatVars == <<session_state, turns>>
vars == <<text, chunks, index, qvec, topk, hits, vectorstore, ingest, last,
          pdf, loaded, headers, downloader, session_state, turns>>

-----------------------------------------------------------------------------
(* Strings *)

SP == " "
NL == "\n"
\* The characters that str.strip() removes, among those of the alphabet.
Whitespace == {SP, NL}

RECURSIVE StrLen(_)
StrLen(str) ==
    IF str = <<>> THEN 0 ELSE Head(str)[2] + StrLen(Tail(str))

\* The characters of str, one per position.
RECURSIVE Expand(_)
Expand(str) ==
    IF str = <<>> THEN <<>>
    ELSE [i \in 1..Head(str)[2] |-> Head(str)[1]] \o Expand(Tail(str))

\* The k-th smallest element of a finite set of integers.
Nth(S, k) == CHOOSE x \in S : Cardinality({y \in S : y < x}) = k - 1

\* The elements of a finite set of integers, ascending.
Sorted(S) == [k \in 1..Cardinality(S) |-> Nth(S, k)]

\* s[lo..hi] as a string (s is an expanded sequence).
Slice(s, lo, hi) ==
    LET B  == {i \in lo..hi : i = lo \/ s[i] # s[i-1]}
        st == Sorted(B)
    IN  [k \in 1..Len(st) |->
            <<s[st[k]], (IF k < Len(st) THEN st[k+1] ELSE hi + 1) - st[k]>>]

-----------------------------------------------------------------------------
(* RecursiveCharacterTextSplitter(chunk_size=1000, chunk_overlap=200), with *)
(* the library defaults: separators ["\n\n", "\n", " ", ""], keep_separator *)
(* = True, length_function = len, strip_whitespace = True.                  *)

chunk_size == 1000
chunk_overlap == 200

separators == << <<NL, NL>>, <<NL>>, <<SP>>, <<>> >>

SpanLen(sp) == sp[2] - sp[1] + 1

\* re.match(sep, s[i..hi]): the separator occurs at position i of the span.
MatchAt(s, hi, sep, i) ==
    /\ i + Len(sep) - 1 <= hi
    /\ \A j \in 1..Len(sep) : s[i + j - 1] = sep[j]

\* re.search(sep, s[lo..hi]); present is the set of characters of s[lo..hi].
Found(s, lo, hi, sep, present) ==
    /\ sep[1] \in present
    /\ Len(sep) = 1 \/ \E i \in lo..hi : MatchAt(s, hi, sep, i)

\* The starts of the leftmost non-overlapping occurrences of sep in
\* s[lo..hi], as re.split finds them.  Every separator repeats one character,
\* so within a maximal run of positions where sep matches, the occurrences
\* taken are those a multiple of Len(sep) after the run's first position.
Matches(s, lo, hi, sep) ==
    LET Cand(i)  == MatchAt(s, hi, sep, i)
        First(i) == CHOOSE j \in lo..i :
                        /\ \A m \in j..i : Cand(m)
                        /\ j = lo \/ ~Cand(j - 1)
    IN  {i \in lo..hi : Cand(i) /\ (i - First(i)) % Len(sep) = 0}

\* _split_text_with_regex(text, separator, keep_separator=True): the pieces
\* of s[lo..hi], each separator kept at the start of the piece that follows
\* it, empty pieces dropped; single characters for the empty separator.
split_text_with_regex(s, lo, hi, sep) ==
    IF sep = <<>>
    THEN [i \in 1..(hi - lo + 1) |-> <<lo + i - 1, lo + i - 1>>]
    ELSE LET M  == Matches(s, lo, hi, sep)
             P  == M \cup (IF lo <= hi /\ lo \notin M THEN {lo} ELSE {})
             st == Sorted(P)
         IN  [k \in 1..Len(st) |->
                 <<st[k], (IF k < Len(st) THEN st[k+1] ELSE hi + 1) - 1>>]

\* join_docs that also drops the last character of the joined text.
join_docs_drop_last(s, lo, hi) ==
    IF \A i \in lo..(hi - 1) : s[i] \in Whitespace
    THEN <<>>
    ELSE LET a == CHOOSE i \in lo..(hi - 1) :
                      s[i] \notin Whitespace /\ \A j \in lo..(i-1) : s[j] \in Whitespace
             b == CHOOSE i \in lo..(hi - 1) :
                      s[i] \notin Whitespace /\ \A j \in (i+1)..(hi - 1) : s[j] \in Whitespace
         IN  << <<a, b>> >>

\* _join_docs(docs, separator=""): the pieces joined and stripped of leading
\* and trailing whitespace; None (no chunk) when nothing is left.
join_docs(s, lo, hi) ==
    IF \A i \in lo..hi : s[i] \in Whitespace
    THEN <<>>
    ELSE LET a == CHOOSE i \in lo..hi :
                      s[i] \notin Whitespace /\ \A j \in lo..(i-1) : s[j] \in Whitespace
             t == CHOOSE k \in 0..(hi - lo) :
                      s[hi - k] \notin Whitespace /\ \A j \in 0..(k-1) : s[hi - j] \in Whitespace
         IN  << <<a, hi - t>> >>

\* Total counting one character less than the pieces hold.
TotalOffByOne(sp, first, upto) ==
    IF first > upto THEN 0 ELSE sp[upto][2] - sp[first][1]

\* total of _merge_splits while current_doc = sp[first..upto]: the pieces are
\* adjacent spans and the join separator is empty (keep_separator), so the
\* sum of their lengths is the length of the span they cover.
Total(sp, first, upto) ==
    IF first > upto THEN 0 ELSE sp[upto][2] - sp[first][1] + 1

\* _merge_splits over the pieces sp[..b], with current_doc = sp[first..d0-1]
\* and sp[d0] the next piece of the for loop.  The loop only appends until a
\* piece d no longer fits (Over, which stays true from the first such piece
\* on, the total growing with every piece); there it emits current_doc and
\* drops pieces from its front while more than chunk_overlap remains (or d
\* still does not fit).
RECURSIVE merge_from(_, _, _, _, _, _)
merge_from(s, sp, b, first, d0, docs) ==
    LET Over(d) == Total(sp, first, d - 1) + SpanLen(sp[d]) > chunk_size
    IN  IF d0 > b \/ ~Over(b)
        THEN docs \o (IF first > b THEN <<>>
                      ELSE join_docs(s, sp[first][1], sp[b][2]))
        ELSE LET d == CHOOSE x \in d0..b : Over(x) /\ (x = d0 \/ ~Over(x - 1))
                 Pop(f) == \/ Total(sp, f, d - 1) > chunk_overlap
                           \/ /\ Total(sp, f, d - 1) + SpanLen(sp[d]) > chunk_size
                              /\ Total(sp, f, d - 1) > 0
                 f2 == CHOOSE f \in first..d : ~Pop(f) /\ (f = first \/ Pop(f - 1))
             IN  IF d > first
                 THEN merge_from(s, sp, b, f2, d + 1,
                          docs \o join_docs(s, sp[first][1], sp[d-1][2]))
                 ELSE merge_from(s, sp, b, first, d + 1, docs)

merge_splits(s, sp, a, b) == merge_from(s, sp, b, a, a, <<>>)

\* _split_text(text, separators): the separator is the first of the list
\* found in the text (the empty one always is); pieces shorter than
\* chunk_size are merged, a longer piece is split with the separators left.
RECURSIVE split_text_rec(_, _, _, _)
RECURSIVE split_pieces(_, _, _, _)
split_text_rec(s, lo, hi, si) ==
    LET present == {s[i] : i \in lo..hi}
        usable == {j \in si..Len(separators) :
                       separators[j] = <<>> \/ Found(s, lo, hi, separators[j], present)}
        sel == Nth(usable, 1)
        sp  == split_text_with_regex(s, lo, hi, separators[sel])
    IN  split_pieces(s, sp, 1, IF separators[sel] = <<>> THEN Len(separators) + 1 ELSE sel + 1)

\* The for loop of _split_text from piece j on; nsi is the index of the first
\* of new_separators (past the list when there is none).
split_pieces(s, sp, j, nsi) ==
    IF j > Len(sp) THEN <<>>
    ELSE LET Bad == {m \in j..Len(sp) : ~(SpanLen(sp[m]) < chunk_size)}
             b   == IF Bad = {} THEN Len(sp) + 1 ELSE Nth(Bad, 1)
             good == IF b > j THEN merge_splits(s, sp, j, b - 1) ELSE <<>>
         IN  IF b > Len(sp) THEN good
             ELSE good
                  \o (IF nsi > Len(separators) THEN <<sp[b]>>
                      ELSE split_text_rec(s, sp[b][1], sp[b][2], nsi))
                  \o split_pieces(s, sp, b + 1, nsi)

\* TextSplitter.split_text: the chunks of a document, as spans of its text.
split_text(str) ==
    LET s == Expand(str) IN split_text_rec(s, 1, Len(s), 1)

-----------------------------------------------------------------------------
(* Texts *)

MaxRuns == 3
Letters == {"a", "b"}
LetterLens == {1, 200, 800, 1000}
SpaceLens == {1, 2}
RunSet == (Letters \X LetterLens) \cup (Whitespace \X SpaceLens)

RECURSIVE RunSeqs(_)
RunSeqs(n) ==
    IF n = 0 THEN {<<>>}
    ELSE LET S == RunSeqs(n - 1)
         IN  S \cup {Append(t, r) : t \in {u \in S : Len(u) = n - 1}, r \in RunSet}

Canonical(str) == \A i \in 1..(Len(str) - 1) : str[i][1] # str[i+1][1]

Texts == {t \in RunSeqs(MaxRuns) : Canonical(t)}


-----------------------------------------------------------------------------
(* HuggingFaceEmbeddings: a deterministic map from a text to a vector of a *)
(* fixed length.  The stand-in counts the letters of the text.             *)

RECURSIVE CountOf(_, _)
CountOf(c, str) ==
    IF str = <<>> THEN 0
    ELSE (IF Head(str)[1] = c THEN Head(str)[2] ELSE 0) + CountOf(c, Tail(str))

embed_query(str) == <<CountOf("a", str), CountOf("b", str)>>

\* embed_documents: one vector per text, in the order of the texts.
embed_documents(texts) == [i \in 1..Len(texts) |-> embed_query(texts[i])]

-----------------------------------------------------------------------------
(* FAISS (IndexFlatL2 and the docstore beside it) *)

\* Squared Euclidean distance, the metric of IndexFlatL2.
L2sqr(u, v) == (u[1] - v[1]) * (u[1] - v[1]) + (u[2] - v[2]) * (u[2] - v[2])

\* HeapInsert with an entry put before the entries as far as it.
HeapInsertBeforeTies(vecs, qv, best, i) ==
    LET p == Cardinality({r \in 1..Len(best) :
                 L2sqr(vecs[best[r]], qv) < L2sqr(vecs[i], qv)})
    IN  SubSeq(best, 1, p) \o <<i>> \o SubSeq(best, p + 1, Len(best))

\* best with entry i put after the entries that are not farther than it.
HeapInsert(vecs, qv, best, i) ==
    LET p == Cardinality({r \in 1..Len(best) :
                 L2sqr(vecs[best[r]], qv) <= L2sqr(vecs[i], qv)})
    IN  SubSeq(best, 1, p) \o <<i>> \o SubSeq(best, p + 1, Len(best))

\* knn_scan with an entry replacing the farthest of k when it is as near.
RECURSIVE knn_scan_replace_ties(_, _, _, _, _)
knn_scan_replace_ties(vecs, qv, k, i, best) ==
    IF i > Len(vecs) THEN best
    ELSE IF Len(best) < k
         THEN knn_scan_replace_ties(vecs, qv, k, i + 1, HeapInsert(vecs, qv, best, i))
         ELSE IF L2sqr(vecs[i], qv) <= L2sqr(vecs[best[k]], qv)
              THEN knn_scan_replace_ties(vecs, qv, k, i + 1,
                       HeapInsert(vecs, qv, SubSeq(best, 1, k - 1), i))
              ELSE knn_scan_replace_ties(vecs, qv, k, i + 1, best)

\* The scan of IndexFlatL2.search over the entries from i on: best holds the
\* at most k nearest entries seen so far, nearest first; an entry replaces the
\* farthest of k only when it is strictly nearer.
RECURSIVE knn_scan(_, _, _, _, _)
knn_scan(vecs, qv, k, i, best) ==
    IF i > Len(vecs) THEN best
    ELSE IF Len(best) < k
         THEN knn_scan(vecs, qv, k, i + 1, HeapInsert(vecs, qv, best, i))
         ELSE IF L2sqr(vecs[i], qv) < L2sqr(vecs[best[k]], qv)
              THEN knn_scan(vecs, qv, k, i + 1,
                       HeapInsert(vecs, qv, SubSeq(best, 1, k - 1), i))
              ELSE knn_scan(vecs, qv, k, i + 1, best)

\* index_search with the order of a similarity score: farthest first.
index_search_farthest_first(vecs, qv, k) ==
    LET ids == knn_scan(vecs, qv, Len(vecs), 1, <<>>)
    IN  [r \in 1..(IF k < Len(ids) THEN k ELSE Len(ids)) |-> ids[Len(ids) - r + 1]]

\* index.search(query_vector, k) without the -1 labels of missing results:
\* the positions of the nearest entries.
index_search(vecs, qv, k) == knn_scan(vecs, qv, k, 1, <<>>)

\* FAISS.similarity_search_by_vector: the documents of the entries found.
similarity_search_by_vector(store, qv, k) ==
    LET ids == index_search(store.vecs, qv, k)
    IN  [r \in 1..Len(ids) |-> store.docs[ids[r]]]

\* FAISS.similarity_search(question, k).
similarity_search(store, question, k) ==
    similarity_search_by_vector(store, embed_query(question), k)

\* from_documents that leaves the last chunk of the batch out of the index.
from_documents_partial(chunkdocs, embed_fails) ==
    IF chunkdocs = <<>>
    THEN [raised |-> TRUE, error |-> "list index out of range",
          vecs |-> <<>>, docs |-> <<>>]
    ELSE IF embed_fails
    THEN [raised |-> TRUE, error |-> "embedding failed",
          vecs |-> <<>>, docs |-> <<>>]
    ELSE [raised |-> FALSE, error |-> "",
          vecs |-> embed_documents([i \in 1..(Len(chunkdocs) - 1) |-> chunkdocs[i].page_content]),
          docs |-> SubSeq(chunkdocs, 1, Len(chunkdocs) - 1)]

\* FAISS.from_documents(chunks, embeddings): embeds every chunk in one call
\* and builds a new index over the vectors; nothing is built when the call
\* raises.  embed_fails: the embedding call raises on this batch of texts.
\* On an empty list of chunks the dimension is read off embeddings[0].
from_documents(chunkdocs, embed_fails) ==
    IF chunkdocs = <<>>
    THEN [raised |-> TRUE, error |-> "list index out of range",
          vecs |-> <<>>, docs |-> <<>>]
    ELSE IF embed_fails
    THEN [raised |-> TRUE, error |-> "embedding failed",
          vecs |-> <<>>, docs |-> <<>>]
    ELSE [raised |-> FALSE, error |-> "",
          vecs |-> embed_documents([i \in 1..Len(chunkdocs) |-> chunkdocs[i].page_content]),
          docs |-> chunkdocs]

-----------------------------------------------------------------------------
(* Documents *)

MaxDocs == 2

\* The texts of the documents handed to ingestion: one of two distinct halves
\* of 1000 characters, and a short one.
DocAB == << <<"a", 1000>>, <<"b", 1000>> >>
DocShort == << <<"b", 200>> >>
Corpus == {DocAB, DocShort}

\* TextSplitter.create_documents for one text: a Document per chunk, with a
\* copy of the metadata of the text it comes from.  span is the place of the
\* chunk in the text, kept beside the Document for the properties only.
chunk_documents(str) ==
    LET s == Expand(str)
        spans == split_text(str)
    IN  [i \in 1..Len(spans) |->
            [page_content |-> Slice(s, spans[i][1], spans[i][2]), span |-> spans[i]]]

\* The chunks of each text of the corpus, computed once.
CorpusChunks == [t \in Corpus |-> chunk_documents(t)]

\* TextSplitter.split_documents(documents): the chunks of the documents, in
\* the order of the documents.
RECURSIVE split_documents(_)
split_documents(documents) ==
    IF documents = <<>> THEN <<>>
    ELSE LET d == Head(documents)
             cs == CorpusChunks[d.page_content]
         IN  [i \in 1..Len(cs) |->
                 [page_content |-> cs[i].page_content,
                  metadata |-> d.metadata,
                  span |-> cs[i].span]]
             \o split_documents(Tail(documents))

\* A batch: up to MaxDocs Documents, each with its place in the batch as the
\* source of its metadata.
Batches ==
    UNION {[1..n -> Corpus] : n \in 0..MaxDocs}

Documents(texts) ==
    [i \in 1..Len(texts) |-> [page_content |-> texts[i], metadata |-> i]]

-----------------------------------------------------------------------------
(* RAGProcessor *)

\* The default k of RAGProcessor.query.
query_k == 3

\* RAGProcessor.query(vectorstore, question, k).
query(store, question, k) == similarity_search(store, question, k)

-----------------------------------------------------------------------------
(* main.py *)

\* The module global `vectorstore` before anything binds it.
\* built_from (the texts of the batch an index was built from) is kept beside
\* the index for the properties only.
Unbound == [bound |-> FALSE, vecs |-> <<>>, docs |-> <<>>, built_from |-> <<>>]

NameErrorText == "name 'vectorstore' is not defined"
IndexErrorText == "list index out of range"
EmbedErrorText == "embedding failed"

\* ask_body with a missing index answered by an empty text.
ask_body_default_answer(vs, question, embed_ok) ==
    IF ~vs.bound \/ ~embed_ok
    THEN [raised |-> FALSE, error |-> "", answer |-> <<>>, retrieved |-> 0]
    ELSE LET docs == similarity_search(vs, question, 3)
         IN  [raised |-> FALSE, error |-> "", answer |-> docs[1].page_content,
              retrieved |-> Len(docs)]

\* ask_body answering with the last retrieved chunk, docs[-1].
ask_body_last_doc(vs, question, embed_ok) ==
    IF ~vs.bound
    THEN [raised |-> TRUE, error |-> "name 'vectorstore' is not defined",
          answer |-> <<>>, retrieved |-> 0]
    ELSE IF ~embed_ok
    THEN [raised |-> TRUE, error |-> "embedding failed", answer |-> <<>>, retrieved |-> 0]
    ELSE LET docs == similarity_search(vs, question, 3)
         IN  [raised |-> FALSE, error |-> "", answer |-> docs[Len(docs)].page_content,
              retrieved |-> Len(docs)]

\* The body of the try block of ask_question: the lookup of the global, the
\* query, and docs[0].page_content.  embed_ok: embedding the question works.
ask_body(vs, question, embed_ok) ==
    IF ~vs.bound
    THEN [raised |-> TRUE, error |-> NameErrorText, answer |-> <<>>, retrieved |-> 0]
    ELSE IF ~embed_ok
    THEN [raised |-> TRUE, error |-> EmbedErrorText, answer |-> <<>>, retrieved |-> 0]
    ELSE LET docs == query(vs, question, query_k)
         IN  IF docs = <<>>
             THEN [raised |-> TRUE, error |-> IndexErrorText, answer |-> <<>>,
                   retrieved |-> 0]
             ELSE [raised |-> FALSE, error |-> "", answer |-> docs[1].page_content,
                   retrieved |-> Len(docs)]

\* ask_question without its except clause: the exception leaves the handler.
ask_question_no_except(vs, question, embed_ok) ==
    IF ~vs.bound \/ ~embed_ok
    THEN [kind |-> "unhandled", status |-> 0, answer |-> <<>>, detail |-> "",
          raised |-> "error", retrieved |-> 0]
    ELSE LET docs == similarity_search(vs, question, 3)
         IN  [kind |-> "answer", status |-> 200, answer |-> docs[1].page_content,
              detail |-> "", raised |-> "", retrieved |-> Len(docs)]

\* ask_question: {"answer": ...}, or HTTPException(500, detail=str(e)) for
\* any exception of the body.
ask_question(vs, question, embed_ok) ==
    LET r == ask_body(vs, question, embed_ok)
    IN  IF r.raised
        THEN [kind |-> "http_error", status |-> 500, answer |-> <<>>,
              detail |-> r.error, raised |-> r.error, retrieved |-> r.retrieved]
        ELSE [kind |-> "answer", status |-> 200, answer |-> r.answer,
              detail |-> "", raised |-> "", retrieved |-> r.retrieved]

Questions == { << <<"a", 1>> >>, << <<"b", 1>> >>, << <<"a", 900>> >> }

-----------------------------------------------------------------------------
(* The service: ingestion runs and /ask requests *)

Idle == [pc |-> "idle", docs |-> <<>>, poison |-> {}, chunks |-> <<>>,
         store |-> Unbound, error |-> ""]

NoRequest == [asked |-> FALSE, question |-> <<>>, embed_ok |-> TRUE,
              seen |-> Unbound, during_ingest |-> FALSE,
              resp |-> [kind |-> "none", status |-> 0, answer |-> <<>>,
                        detail |-> "", raised |-> "", retrieved |-> 0]]

NoChunks == [done |-> FALSE, spans |-> <<>>]
NoHits == [done |-> FALSE, ids |-> <<>>]

ChunkIdle == text = <<>> /\ chunks = NoChunks
SearchIdle == index = <<>> /\ qvec = <<0, 0>> /\ topk = 1 /\ hits = NoHits
ServiceInit == vectorstore = Unbound /\ ingest = Idle /\ last = NoRequest

\* The loader, the downloader and the chat page before they run.
NoPdf == [path |-> "", partition_ok |-> TRUE, elems |-> <<>>]
NotLoaded == [done |-> FALSE, raised |-> FALSE, docs |-> <<>>]
LoaderIdle == pdf = NoPdf /\ loaded = NotLoaded

\* DocumentDownloader.__init__: the session's first User-Agent.
OriginalUA ==
    "Mozilla/5.0 (Windows NT 10.0; Win64; x64) AppleWebKit/537.36 (KHTML, like Gecko) Chrome/91.0.4472.124 Safari/537.36"
SessionHeaders == [h \in {"User-Agent"} |-> OriginalUA]
\* download_all_documents before its first file: pc is the place in the
\* code, next the position in the document list, i the position in
\* user_agents, old_ua the local of that name ("" while unbound); entry_ua,
\* log and result record the current call of download_with_fallbacks: the
\* header it was entered with, its download_file calls and what it returned.
NotStarted == [pc |-> "loop", next |-> 1, i |-> 0, old_ua |-> "",
               entry_ua |-> "", log |-> <<>>, result |-> "none",
               total_downloaded |-> 0, total_failed |-> 0]
DownloadIdle == headers = SessionHeaders /\ downloader = NotStarted

\* st.session_state of a new browser session has no key.
NewSession == [key \in {} |-> <<>>]
ChatIdle == session_state = NewSession /\ turns = <<>>

ToolsIdle == LoaderIdle /\ DownloadIdle /\ ChatIdle

\* process_documents, first statement: the documents are split.  poison is
\* the set of documents (by source) whose text the embedding model fails on:
\* none of the batch, or one of them.
SplitDocuments ==
    /\ ingest.pc = "idle"
    /\ \E texts \in Batches : \E poison \in {{}} \cup {{i} : i \in 1..Len(texts)} :
         ingest' = [pc |-> "split", docs |-> Documents(texts), poison |-> poison,
                    chunks |-> split_documents(Documents(texts)),
                    store |-> Unbound, error |-> ""]
    /\ UNCHANGED <<vectorstore, last>>

\* process_documents, second statement: the chunks are embedded and a new
\* index is built from them, or the call raises.
FromDocuments ==
    /\ ingest.pc = "split"
    /\ LET fails == \E i \in 1..Len(ingest.chunks) :
                        ingest.chunks[i].metadata \in ingest.poison
           r == from_documents(ingest.chunks, fails)
       IN  ingest' = IF r.raised
                     THEN [ingest EXCEPT !.pc = "raised", !.error = r.error]
                     ELSE [ingest EXCEPT !.pc = "built",
                               !.store = [bound |-> TRUE, vecs |-> r.vecs, docs |-> r.docs,
                                          built_from |-> [i \in 1..Len(ingest.docs) |->
                                                             ingest.docs[i].page_content]]]
    /\ UNCHANGED <<vectorstore, last>>

\* process_documents returns the index it built.  main.py itself never binds
\* the global `vectorstore` that ask_question reads: the caller of
\* process_documents binds the returned index to it, in one assignment.
ReturnStore ==
    /\ ingest.pc = "built"
    /\ vectorstore' = ingest.store
    /\ ingest' = Idle
    /\ UNCHANGED last

\* The exception of from_documents leaves process_documents: nothing is
\* returned and nothing is bound.
RaiseOut ==
    /\ ingest.pc = "raised"
    /\ ingest' = Idle
    /\ UNCHANGED <<vectorstore, last>>

\* POST /ask.  The handler is a coroutine without an await: it runs from its
\* first statement to its response in one step of the event loop.
Ask ==
    /\ \E question \in Questions : \E embed_ok \in BOOLEAN :
         last' = [asked |-> TRUE, question |-> question, embed_ok |-> embed_ok,
                  seen |-> vectorstore, during_ingest |-> ingest.pc # "idle",
                  resp |-> ask_question(vectorstore, question, embed_ok)]
    /\ UNCHANGED <<vectorstore, ingest>>

Init == ServiceInit /\ ChunkIdle /\ SearchIdle /\ ToolsIdle

Next ==
    \/ SplitDocuments /\ UNCHANGED <<chunkVars, searchVars, loaderVars, downloadVars, chatVars>>
    \/ FromDocuments /\ UNCHANGED <<chunkVars, searchVars, loaderVars, downloadVars, chatVars>>
    \/ ReturnStore /\ UNCHANGED <<chunkVars, searchVars, loaderVars, downloadVars, chatVars>>
    \/ RaiseOut /\ UNCHANGED <<chunkVars, searchVars, loaderVars, downloadVars, chatVars>>
    \/ Ask /\ UNCHANGED <<chunkVars, searchVars, loaderVars, downloadVars, chatVars>>

Spec == Init /\ [][Next]_vars

-----------------------------------------------------------------------------
(* Properties of the service *)

Min(a, b) == IF a < b THEN a ELSE b

\* Entry i of the store is nearer to the vector than entry j, or as near and
\* inserted earlier.
Before(vecs, qv, i, j) ==
    \/ L2sqr(vecs[i], qv) < L2sqr(vecs[j], qv)
    \/ L2sqr(vecs[i], qv) = L2sqr(vecs[j], qv) /\ i < j

\* The entry of a non-empty store that ranks first for the vector.
Rank0(vecs, qv) ==
    CHOOSE i \in 1..Len(vecs) : \A j \in (1..Len(vecs)) \ {i} : Before(vecs, qv, i, j)

\* C1: a question asked through /ask while no index is bound gets an error
\* response (status 500, the detail naming the missing index) and no answer;
\* the error does not leave the handler.
C1_NoIndexIsAnErrorResponse ==
    (last.asked /\ ~last.seen.bound) =>
        /\ last.resp.kind = "http_error"
        /\ last.resp.status = 500
        /\ last.resp.detail = NameErrorText
        /\ last.resp.answer = <<>>

C1_Witness ==
    /\ last.asked /\ ~last.seen.bound /\ last.embed_ok
    /\ last.resp.kind = "http_error"
    /\ last.during_ingest

\* C2: the answer of a question answered successfully is the page content of
\* the entry that ranks first for the question among the entries of the index
\* the handler read, the search having retrieved min(3, size) entries.
C2_AnswerIsTopRankedChunk ==
    (last.asked /\ last.resp.kind = "answer") =>
        /\ last.seen.bound
        /\ last.resp.retrieved = Min(3, Len(last.seen.docs))
        /\ last.resp.answer =
               last.seen.docs[Rank0(last.seen.vecs, embed_query(last.question))].page_content

\* A question answered from an index of more than 3 entries, where the entry
\* ranking first is not the first one inserted.
C2_Witness ==
    /\ last.asked /\ last.resp.kind = "answer"
    /\ Len(last.seen.docs) > 3
    /\ last.resp.retrieved = 3
    /\ Rank0(last.seen.vecs, embed_query(last.question)) # 1

\* C3: whenever the body of the handler raises (no index bound, the question
\* cannot be embedded, no first result), the response is an HTTP 500 whose
\* detail is the text of the error, without an answer; every request ends in
\* an answer or in such an error response.
C3_ErrorsBecomeHttp500 ==
    last.asked =>
        /\ last.resp.kind \in {"answer", "http_error"}
        /\ (~last.seen.bound \/ ~last.embed_ok \/ last.seen.docs = <<>>) =>
               /\ last.resp.kind = "http_error"
               /\ last.resp.status = 500
               /\ last.resp.raised # ""
               /\ last.resp.detail = last.resp.raised
               /\ last.resp.answer = <<>>
        /\ last.resp.kind = "http_error" =>
               (~last.seen.bound \/ ~last.embed_ok \/ last.seen.docs = <<>>)

\* The question could not be embedded, with an index bound.
C3_Witness ==
    /\ last.asked /\ last.seen.bound /\ ~last.embed_ok
    /\ last.resp.kind = "http_error"
    /\ last.resp.detail = EmbedErrorText

\* The chunks of the documents of a run that the embedding model does not
\* fail on.
HealthyChunks(run) ==
    LET keep == {i \in 1..Len(run.chunks) : run.chunks[i].metadata \notin run.poison}
        st == Sorted(keep)
    IN  [k \in 1..Len(st) |-> run.chunks[st[k]]]

\* C4: when embedding fails for one document of a batch, the run still ends
\* with an index, which holds the chunks of every other document.
C4_FailedDocumentIsSkipped ==
    (ingest.pc \in {"built", "raised"} /\ ingest.poison # {}
        /\ HealthyChunks(ingest) # <<>>) =>
        /\ ingest.pc = "built"
        /\ ingest.store.docs = HealthyChunks(ingest)

\* The first half of DocAB, and the spans of the chunks of a store.
FirstHalf == << <<"a", 1000>> >>
SpansOf(store) == [i \in 1..Len(store.docs) |-> store.docs[i].span]

\* The vector is nearer to the embedding of the first half than to the
\* vector of any entry of the store that is not that embedding.
ClosestToFirstHalf(qv, store) ==
    \A i \in 1..Len(store.vecs) :
        store.vecs[i] # embed_query(FirstHalf) =>
            L2sqr(qv, embed_query(FirstHalf)) < L2sqr(qv, store.vecs[i])

\* C9 as claimed: the document of 2000 characters gives 2 chunks, of the
\* characters [0,1000) and [800,2000), and a question whose vector is closest
\* to the first half is answered with the first chunk.
C9_TwoChunks ==
    /\ (ingest.pc = "built" /\ ingest.docs = Documents(<<DocAB>>)) =>
           SpansOf(ingest.store) = << <<1, 1000>>, <<801, 2000>> >>
    /\ (last.asked /\ last.resp.kind = "answer" /\ last.seen.built_from = <<DocAB>>
           /\ ClosestToFirstHalf(embed_query(last.question), last.seen)) =>
           last.resp.answer = FirstHalf

\* C9, amended: the document of 2000 characters gives 3 chunks, of the
\* characters [0,1000), [800,1800) and [1600,2000), and a question whose
\* vector is closest to the first half is answered with the first chunk.
C9_ThreeChunksFirstRanksFirst ==
    /\ (ingest.pc = "built" /\ ingest.docs = Documents(<<DocAB>>)) =>
           SpansOf(ingest.store) = << <<1, 1000>>, <<801, 1800>>, <<1601, 2000>> >>
    /\ (last.asked /\ last.resp.kind = "answer" /\ last.seen.built_from = <<DocAB>>
           /\ ClosestToFirstHalf(embed_query(last.question), last.seen)) =>
           /\ last.resp.answer = FirstHalf
           /\ last.resp.answer = last.seen.docs[1].page_content
           /\ last.seen.docs[1].span = <<1, 1000>>

\* A question that is not the text of the first half, closest to it, answered
\* from the index of the one document.
C9_Witness ==
    /\ last.asked /\ last.resp.kind = "answer"
    /\ last.seen.built_from = <<DocAB>>
    /\ Len(last.seen.docs) = 3
    /\ last.question # FirstHalf
    /\ ClosestToFirstHalf(embed_query(last.question), last.seen)
    /\ last.resp.answer = FirstHalf

\* The index holds every chunk of the batch it was built from, with the
\* vector of each.
Complete(store) ==
    /\ store.docs = split_documents(Documents(store.built_from))
    /\ store.vecs = embed_documents([i \in 1..Len(store.docs) |-> store.docs[i].page_content])

-----------------------------------------------------------------------------
(* The chunker alone: split_text applied to a text *)

InitChunk ==
    /\ text \in Texts /\ chunks = NoChunks
    /\ ServiceInit /\ SearchIdle /\ ToolsIdle

SplitText ==
    /\ ~chunks.done
    /\ chunks' = [done |-> TRUE, spans |-> split_text(text)]
    /\ UNCHANGED <<text, searchVars, serviceVars, loaderVars, downloadVars, chatVars>>

NextChunk == SplitText

SpecChunk == InitChunk /\ [][NextChunk]_vars

-----------------------------------------------------------------------------
(* The index alone: a search applied to an index *)

MaxEntries == 3
MaxK == 4
MaxCoord == 1
Vectors == (0..MaxCoord) \X (0..MaxCoord)

InitSearch ==
    /\ index \in UNION {[1..n -> Vectors] : n \in 0..MaxEntries}
    /\ qvec \in Vectors
    /\ topk \in 1..MaxK
    /\ hits = NoHits
    /\ ChunkIdle /\ ServiceInit /\ ToolsIdle

Search ==
    /\ ~hits.done
    /\ hits' = [done |-> TRUE, ids |-> index_search(index, qvec, topk)]
    /\ UNCHANGED <<index, qvec, topk, chunkVars, serviceVars, loaderVars, downloadVars, chatVars>>

NextSearch == Search

SpecSearch == InitSearch /\ [][NextSearch]_vars

-----------------------------------------------------------------------------
(* Properties of the search *)

IsPrefix(p, q) == Len(p) <= Len(q) /\ \A r \in 1..Len(p) : p[r] = q[r]

\* C5: a search returns min(k, size) entries, nearest first, entries as near
\* as each other in the order of their insertion, and no entry left out ranks
\* before one returned; an empty index gives an empty result, and of two
\* entries with the vector of the query the earlier one comes first.
C5_SearchIsTopKByDistanceThenInsertion ==
    hits.done =>
        LET ids == hits.ids
            n == Len(index)
        IN  /\ Len(ids) = Min(topk, n)
            /\ \A r \in 1..Len(ids) : ids[r] \in 1..n
            /\ \A r \in 1..(Len(ids) - 1) : Before(index, qvec, ids[r], ids[r+1])
            /\ \A j \in 1..n : \A r \in 1..Len(ids) :
                   (\A q \in 1..Len(ids) : ids[q] # j) => Before(index, qvec, ids[r], j)
            /\ n = 0 => ids = <<>>

\* Two entries with the same vector are both returned, the earlier one first,
\* while a third entry as far as the last one returned is left out.
C5_Witness ==
    /\ hits.done /\ Len(index) = 3 /\ topk = 2
    /\ index[1] = index[2] /\ index[2] = index[3]
    /\ hits.ids = <<1, 2>>

-----------------------------------------------------------------------------
(* Properties of the chunker *)

Max(a, b) == IF a > b THEN a ELSE b

Covered(spans, pos) ==
    \E i \in 1..Len(spans) : spans[i][1] <= pos /\ pos <= spans[i][2]

\* The chunks follow the order of the document.
InOrder(spans) ==
    \A i \in 1..(Len(spans) - 1) :
        spans[i][1] <= spans[i+1][1] /\ spans[i][2] < spans[i+1][2]

\* The chunks from the i-th on, each without the characters it shares with
\* the chunk before it, concatenated.
RECURSIVE Rebuilt(_, _, _)
Rebuilt(s, spans, i) ==
    IF i > Len(spans) THEN <<>>
    ELSE SubSeq(s, Max(spans[i][1], IF i = 1 THEN 1 ELSE spans[i-1][2] + 1), spans[i][2])
         \o Rebuilt(s, spans, i + 1)

\* s without the characters at the positions of u (ascending), from the k-th
\* of them on; from is the first position not yet copied.
RECURSIVE Without(_, _, _, _)
Without(s, u, k, from) ==
    IF k > Len(u) THEN SubSeq(s, from, Len(s))
    ELSE SubSeq(s, from, u[k] - 1) \o Without(s, u, k + 1, u[k] + 1)

HasWhitespace(s) == \E i \in 1..Len(s) : s[i] \in Whitespace

\* C7 as claimed: every character position of the text lies in a chunk, the
\* chunks are in document order, and the chunks without their overlaps
\* concatenate to the text; an empty text has no chunks.
C7_NoGapsExactReconstruction ==
    chunks.done =>
        LET s == Expand(text)
        IN  /\ \A pos \in 1..Len(s) : Covered(chunks.spans, pos)
            /\ InOrder(chunks.spans)
            /\ Rebuilt(s, chunks.spans, 1) = s
            /\ text = <<>> => chunks.spans = <<>>

\* C7, amended: every position that lies in no chunk holds a whitespace
\* character, the chunks are in document order, and the chunks without their
\* overlaps concatenate to the text without those whitespace characters, so
\* to the text itself when it has no whitespace; an empty text has no chunks.
C7_NoGapsButStrippedWhitespace ==
    chunks.done =>
        LET s == Expand(text)
            U == {pos \in 1..Len(s) : ~Covered(chunks.spans, pos)}
        IN  /\ \A pos \in U : s[pos] \in Whitespace
            /\ InOrder(chunks.spans)
            /\ Rebuilt(s, chunks.spans, 1) = Without(s, Sorted(U), 1, 1)
            /\ ~HasWhitespace(s) => Rebuilt(s, chunks.spans, 1) = s
            /\ text = <<>> => chunks.spans = <<>>

\* A text of several chunks, with overlaps, that loses a whitespace character.
C7_Witness ==
    /\ chunks.done /\ Len(chunks.spans) >= 3
    /\ \E i \in 1..(Len(chunks.spans) - 1) : chunks.spans[i+1][1] <= chunks.spans[i][2]
    /\ \E pos \in 1..StrLen(text) : ~Covered(chunks.spans, pos)

\* C8 as claimed: the last chunk_overlap characters of a chunk are the first
\* chunk_overlap characters of the next one, every chunk but the last has
\* chunk_size characters and the last one has at most chunk_size.
C8_ExactOverlapAndSize ==
    chunks.done =>
        LET s == Expand(text)
            sp == chunks.spans
        IN  /\ \A i \in 1..(Len(sp) - 1) :
                   /\ SpanLen(sp[i]) = chunk_size
                   /\ SpanLen(sp[i+1]) >= chunk_overlap
                   /\ \A j \in 1..chunk_overlap :
                          s[sp[i][2] - chunk_overlap + j] = s[sp[i+1][1] + j - 1]
            /\ \A i \in 1..Len(sp) : SpanLen(sp[i]) <= chunk_size

\* C8, amended: every chunk has at most chunk_size characters and shares at
\* most chunk_overlap characters with the next one; for a text without
\* whitespace each chunk starts chunk_overlap characters before the end of
\* the one before it and every chunk but the last has chunk_size characters.
C8_OverlapAndSizeBounded ==
    chunks.done =>
        LET s == Expand(text)
            sp == chunks.spans
        IN  /\ \A i \in 1..Len(sp) : SpanLen(sp[i]) <= chunk_size
            /\ \A i \in 1..(Len(sp) - 1) : sp[i][2] - sp[i+1][1] + 1 <= chunk_overlap
            /\ ~HasWhitespace(s) =>
                   \A i \in 1..(Len(sp) - 1) :
                       /\ sp[i][2] - sp[i+1][1] + 1 = chunk_overlap
                       /\ SpanLen(sp[i]) = chunk_size

\* A text without whitespace cut into three chunks or more.
C8_Witness ==
    /\ chunks.done /\ Len(chunks.spans) >= 3
    /\ ~HasWhitespace(Expand(text))
    /\ SpanLen(chunks.spans[Len(chunks.spans)]) < chunk_size

-----------------------------------------------------------------------------
(* document_loader.py: load_pdf_with_tables_images *)

\* What a call gives: a value, or an exception that leaves it.
Returns(v) == [raised |-> FALSE, value |-> v]
Raises == [raised |-> TRUE, value |-> ""]

\* pytesseract.image_to_string(Image.open(img_path)): the text read from a
\* scan, nothing from a blank picture, an exception for a file that cannot
\* be opened or read.
ImagePaths == {"scan.png", "blank.png", "broken.png"}
image_to_string(img_path) ==
    CASE img_path = "scan.png" -> Returns("OCR")
      [] img_path = "blank.png" -> Returns("")
      [] OTHER -> Raises

\* extract_text_from_image without its except clause.
extract_text_from_image_no_except(img_path) == image_to_string(img_path)

extract_text_from_image(img_path) ==
    LET r == image_to_string(img_path)
    IN  IF r.raised THEN Returns("") ELSE r

\* One turn of the loop over the elements: the entry appended to content.
content_entry(elem) ==
    CASE elem.category = "Table" -> Returns("TABLE:\n" \o elem.text)
      [] elem.category = "Image" ->
           LET img_text == extract_text_from_image(elem.image_path)
           IN  IF img_text.raised THEN Raises
               ELSE Returns("IMAGE_DESCRIPTION:\n" \o img_text.value)
      [] OTHER -> Returns(elem.text)

\* The loop: content after the elements, or the exception that ended it.
RECURSIVE content(_)
content(elems) ==
    IF elems = <<>> THEN Returns(<<>>)
    ELSE LET e == content_entry(Head(elems))
             rest == content(Tail(elems))
         IN  IF e.raised \/ rest.raised THEN [raised |-> TRUE, value |-> <<>>]
             ELSE Returns(<<e.value>> \o rest.value)

\* sep.join(parts)
RECURSIVE join(_, _)
join(sep, parts) ==
    IF parts = <<>> THEN ""
    ELSE IF Len(parts) = 1 THEN parts[1]
    ELSE parts[1] \o sep \o join(sep, Tail(parts))

load_pdf_with_tables_images(file) ==
    IF ~file.partition_ok THEN [done |-> TRUE, raised |-> TRUE, docs |-> <<>>]
    ELSE LET c == content(file.elems)
         IN  IF c.raised THEN [done |-> TRUE, raised |-> TRUE, docs |-> <<>>]
             ELSE [done |-> TRUE, raised |-> FALSE,
                   docs |-> << [page_content |-> join("\n\n", c.value),
                                metadata |-> [source |-> file.path]] >>]

\* The PDFs: up to MaxElems elements, each a table, a picture or running
\* text; partition_pdf fails on a file it cannot parse.
MaxElems == 3
ElemTexts == {"A", "B", ""}
Elements ==
    [category : {"Table", "NarrativeText"}, text : ElemTexts, image_path : {""}]
    \cup [category : {"Image"}, text : {""}, image_path : ImagePaths]
Pdfs ==
    [path : {"manual.pdf"}, partition_ok : BOOLEAN,
     elems : UNION {[1..n -> Elements] : n \in 0..MaxElems}]

InitLoader ==
    /\ pdf \in Pdfs /\ loaded = NotLoaded
    /\ ServiceInit /\ ChunkIdle /\ SearchIdle /\ DownloadIdle /\ ChatIdle

LoadPdf ==
    /\ ~loaded.done
    /\ loaded' = load_pdf_with_tables_images(pdf)
    /\ UNCHANGED <<pdf, chunkVars, searchVars, serviceVars, downloadVars, chatVars>>

NextLoader == LoadPdf

SpecLoader == InitLoader /\ [][NextLoader]_vars

-----------------------------------------------------------------------------
(* Properties of the loader *)

\* The entry the claim expects for an element: the text of a table or of
\* running text, the text read from a picture, nothing for a picture whose
\* OCR failed.
OcrFailed(elem) ==
    elem.category = "Image" /\ image_to_string(elem.image_path).raised
ExpectedEntry(elem) ==
    IF OcrFailed(elem) THEN "IMAGE_DESCRIPTION:\n"
    ELSE IF elem.category = "Image"
         THEN "IMAGE_DESCRIPTION:\n" \o image_to_string(elem.image_path).value
    ELSE IF elem.category = "Table" THEN "TABLE:\n" \o elem.text
    ELSE elem.text

\* C11: a picture whose OCR fails does not stop the load: the PDF still
\* gives exactly one Document, whose text holds one entry per element in
\* the order of the elements, the entry of the failed picture being an
\* IMAGE_DESCRIPTION with nothing after it.
C11_OcrFailureGivesEmptyDescription ==
    (loaded.done /\ pdf.partition_ok) =>
        /\ ~loaded.raised
        /\ Len(loaded.docs) = 1
        /\ loaded.docs[1].metadata.source = pdf.path
        /\ loaded.docs[1].page_content =
             join("\n\n", [i \in 1..Len(pdf.elems) |-> ExpectedEntry(pdf.elems[i])])

\* A loaded PDF of three elements whose second is a picture that OCR
\* could not read, between a table and running text.
C11_Witness ==
    /\ loaded.done /\ ~loaded.raised /\ pdf.partition_ok
    /\ Len(pdf.elems) = 3
    /\ pdf.elems[1].category = "Table" /\ pdf.elems[1].text = "A"
    /\ OcrFailed(pdf.elems[2])
    /\ pdf.elems[3].category = "NarrativeText" /\ pdf.elems[3].text = "B"
    /\ loaded.docs[1].page_content = "TABLE:\nA\n\nIMAGE_DESCRIPTION:\n\n\nB"

-----------------------------------------------------------------------------
(* download_docs.py: DocumentDownloader *)

\* download_with_fallbacks: the agents tried after the session's own.
user_agents ==
    << "Mozilla/5.0 (Windows NT 10.0; Win64; x64) AppleWebKit/537.36",
       "Mozilla/5.0 (Macintosh; Intel Mac OS X 10_15_7) AppleWebKit/537.36",
       "Mozilla/5.0 (X11; Linux x86_64) AppleWebKit/537.36" >>

\* What one call of download_file meets: the server's answer to the GET
\* (after the adapter's own retries), the file already on disk, whether the
\* file can be written, and whether an exception is raised where no clause
\* of download_file returns from it (inside one of its except clauses).
Fetches ==
    [net : {"ok", "http_error", "connection_error"},
     on_disk : {"absent", "same_size", "other_size"},
     write_ok : BOOLEAN,
     escapes : BOOLEAN]

\* download_file: "True", "False", or "raised" for an exception that
\* leaves it.
download_file(fetch) ==
    IF fetch.net # "ok"
    THEN IF fetch.escapes THEN "raised" ELSE "False"
    ELSE IF fetch.on_disk = "same_size" THEN "True"
    ELSE IF fetch.write_ok THEN "True"
    ELSE IF fetch.escapes THEN "raised" ELSE "False"

\* after_fallback going on to the next agent after a success.
after_fallback_no_return(i, r) ==
    IF i < Len(user_agents) THEN "next agent"
    ELSE IF r = "True" THEN "return True" ELSE "return False"

\* download_with_fallbacks, after the attempt with user_agents[i] gave r:
\* return True, go on with the next agent, or fall out of the loop.
after_fallback(i, r) ==
    IF r = "True" THEN "return True"
    ELSE IF i < Len(user_agents) THEN "next agent"
    ELSE "return False"

\* restored_agent putting the header back only after a failed attempt.
restored_agent_on_failure_only(ua, old_ua, r) ==
    IF r = "True" THEN ua ELSE old_ua

\* download_with_fallbacks, the User-Agent after the attempt made with ua
\* gave r: the assignments of old_ua on the three ways out of the try.
restored_agent(ua, old_ua, r) == old_ua

\* download_all_documents, after download_with_fallbacks returned success.
Returned(d, success) ==
    [d EXCEPT !.pc = "loop", !.next = @ + 1,
              !.result = IF success THEN "True" ELSE "False",
              !.total_downloaded = IF success THEN @ + 1 ELSE @,
              !.total_failed = IF success THEN @ ELSE @ + 1]

\* The number of (url, filename) pairs download_all_documents goes through.
MaxFiles == 2

Agent == headers["User-Agent"]
Logged(d, r) == [d EXCEPT !.log = Append(@, [ua |-> Agent, result |-> r])]

\* download_all_documents takes the next file and calls
\* download_with_fallbacks, whose locals are fresh.
CallDownload ==
    /\ downloader.pc = "loop" /\ downloader.next <= MaxFiles
    /\ downloader' = [downloader EXCEPT !.pc = "original", !.i = 0,
                                        !.old_ua = "", !.entry_ua = Agent,
                                        !.log = <<>>, !.result = "none"]
    /\ UNCHANGED headers

\* The attempt with the session as it is.  An exception that leaves
\* download_file here leaves download_all_documents too (main logs it).
TryOriginal ==
    /\ downloader.pc = "original"
    /\ \E fetch \in Fetches :
         LET r == download_file(fetch)
             d == Logged(downloader, r)
         IN  downloader' =
               CASE r = "True" -> Returned(d, TRUE)
                 [] r = "False" -> [d EXCEPT !.pc = "agents", !.i = 1]
                 [] OTHER -> [d EXCEPT !.pc = "aborted"]
    /\ UNCHANGED headers

\* The head of a turn of the loop over user_agents: the header is saved
\* and replaced.
SetAgent ==
    /\ downloader.pc = "agents"
    /\ downloader' = [downloader EXCEPT !.pc = "retry", !.old_ua = Agent]
    /\ headers' = [headers EXCEPT !["User-Agent"] = user_agents[downloader.i]]

\* The rest of the turn: the attempt, the header put back, and what follows.
TryFallback ==
    /\ downloader.pc = "retry"
    /\ \E fetch \in Fetches :
         LET r == download_file(fetch)
             d == Logged(downloader, r)
             then == after_fallback(downloader.i, r)
         IN  /\ headers' = [headers EXCEPT !["User-Agent"] =
                              restored_agent(Agent, downloader.old_ua, r)]
             /\ downloader' =
                  CASE then = "return True" -> Returned(d, TRUE)
                    [] then = "next agent" ->
                         [d EXCEPT !.pc = "agents", !.i = @ + 1]
                    [] OTHER -> Returned(d, FALSE)

\* KeyboardInterrupt while the downloads run: no except clause of the class
\* catches it, main logs it and the program ends.
Interrupt ==
    /\ \/ downloader.pc \in {"original", "agents", "retry"}
       \/ downloader.pc = "loop" /\ downloader.next <= MaxFiles
    /\ downloader' = [downloader EXCEPT !.pc = "interrupted"]
    /\ UNCHANGED headers

\* The list is exhausted: sample documents, summary, listing.
Finish ==
    /\ downloader.pc = "loop" /\ downloader.next > MaxFiles
    /\ downloader' = [downloader EXCEPT !.pc = "done"]
    /\ UNCHANGED headers

InitDownload ==
    /\ headers = SessionHeaders /\ downloader = NotStarted
    /\ ServiceInit /\ ChunkIdle /\ SearchIdle /\ LoaderIdle /\ ChatIdle

NextDownload ==
    \/ CallDownload /\ UNCHANGED <<chunkVars, searchVars, serviceVars, loaderVars, chatVars>>
    \/ TryOriginal /\ UNCHANGED <<chunkVars, searchVars, serviceVars, loaderVars, chatVars>>
    \/ SetAgent /\ UNCHANGED <<chunkVars, searchVars, serviceVars, loaderVars, chatVars>>
    \/ TryFallback /\ UNCHANGED <<chunkVars, searchVars, serviceVars, loaderVars, chatVars>>
    \/ Interrupt /\ UNCHANGED <<chunkVars, searchVars, serviceVars, loaderVars, chatVars>>
    \/ Finish /\ UNCHANGED <<chunkVars, searchVars, serviceVars, loaderVars, chatVars>>

SpecDownload == InitDownload /\ [][NextDownload]_vars

-----------------------------------------------------------------------------
(* Properties of the downloader *)

Succeeded(entry) == entry.result = "True"

\* C12: one call of download_with_fallbacks makes at most 4 attempts, the
\* first with the agent it was entered with and the others with the
\* alternate agents in list order; no attempt follows a successful one; it
\* returns True exactly when an attempt succeeded and False exactly when
\* all 4 attempts failed.
C12_AtMostFourAttemptsStopAtFirstSuccess ==
    LET log == downloader.log
    IN  /\ Len(log) <= 4
        /\ \A j \in 1..Len(log) :
             log[j].ua = IF j = 1 THEN downloader.entry_ua ELSE user_agents[j - 1]
        /\ \A j \in 1..(Len(log) - 1) : ~Succeeded(log[j])
        /\ downloader.result = "True" <=> \E j \in 1..Len(log) : Succeeded(log[j])
        /\ downloader.result = "False" <=>
             (Len(log) = 4 /\ \A j \in 1..4 : ~Succeeded(log[j]))

\* The second file succeeded at its third attempt, after the first file
\* had failed all of its attempts.
C12_Witness ==
    /\ downloader.pc = "loop" /\ downloader.next = 3
    /\ downloader.total_failed = 1 /\ downloader.total_downloaded = 1
    /\ downloader.result = "True" /\ Len(downloader.log) = 3

\* download_with_fallbacks is over, by a return or by an exception of the
\* first attempt.
Left == \/ downloader.pc \in {"loop", "done"} /\ downloader.result # "none"
        \/ downloader.pc = "aborted"

-----------------------------------------------------------------------------
(* streamlit_app.py: the chat page *)

\* Streamlit runs the script from top to bottom once for the page load and
\* once for every submitted prompt; one action is one run.

JsonErrorText == "Expecting value: line 1 column 1 (char 0)"
ConnectionErrorText == "Connection refused"
NoBody == [key \in {} |-> ""]

\* What requests.post(API_URL, json={"question": prompt}) meets: the answer
\* of /ask, the HTTP 500 that ask_question raises, a reply whose body is not
\* JSON, or no connection at all.
Posts ==
    { [raised |-> FALSE, error |-> "", status |-> 200, is_json |-> TRUE,
       body |-> [key \in {"answer"} |-> "Change the oil every 5000 miles."]],
      [raised |-> FALSE, error |-> "", status |-> 500, is_json |-> TRUE,
       body |-> [key \in {"detail"} |-> NameErrorText]],
      [raised |-> FALSE, error |-> "", status |-> 502, is_json |-> FALSE,
       body |-> NoBody],
      [raised |-> TRUE, error |-> ConnectionErrorText, status |-> 0,
       is_json |-> FALSE, body |-> NoBody] }

\* dict.get(key, default)
get(dict, key, default) ==
    IF key \in DOMAIN dict THEN dict[key] ELSE default

\* The try block of the script: response.json().get("answer", ...), or
\* "Error: " and the text of the exception.
backend_answer(post) ==
    IF post.raised THEN "Error: " \o post.error
    ELSE IF ~post.is_json THEN "Error: " \o JsonErrorText
    ELSE get(post.body, "answer", "No answer found")

\* The script down to the chat input: the history is created if missing.
with_messages(state) ==
    IF "messages" \in DOMAIN state THEN state
    ELSE [key \in {"messages"} |-> <<>>]

\* The branch of a submitted prompt: the two appends.
with_prompt(state, prompt, post) ==
    [state EXCEPT !["messages"] =
        Append(Append(@, [role |-> "user", content |-> prompt]),
               [role |-> "assistant", content |-> backend_answer(post)])]

MaxPrompts == 3
Prompts == {"How often do I change the oil?", "Which tires fit?"}

\* A run without a prompt: the page is loaded or redrawn.
PageLoad ==
    /\ session_state' = with_messages(session_state)
    /\ UNCHANGED turns

\* A run for a prompt typed into the chat input of a page already drawn.
SubmitPrompt ==
    /\ "messages" \in DOMAIN session_state
    /\ Len(turns) < MaxPrompts
    /\ \E prompt \in Prompts : \E post \in Posts :
         /\ session_state' = with_prompt(with_messages(session_state), prompt, post)
         /\ turns' = Append(turns, [prompt |-> prompt, post |-> post])

InitChat ==
    /\ session_state = NewSession /\ turns = <<>>
    /\ ServiceInit /\ ChunkIdle /\ SearchIdle /\ LoaderIdle /\ DownloadIdle

NextChat ==
    \/ PageLoad /\ UNCHANGED <<chunkVars, searchVars, serviceVars, loaderVars, downloadVars>>
    \/ SubmitPrompt /\ UNCHANGED <<chunkVars, searchVars, serviceVars, loaderVars, downloadVars>>

SpecChat == InitChat /\ [][NextChat]_vars

-----------------------------------------------------------------------------
(* Properties of the chat page *)

messages == get(session_state, "messages", <<>>)

\* The backend call failed: no reply, or a reply that is not a 200.
BackendFailed(post) == post.raised \/ post.status # 200

ErrorMessages ==
    {"Error: " \o t : t \in {JsonErrorText, ConnectionErrorText, NameErrorText}}

\* The history holds two messages for every prompt submitted so far, the
\* prompt as the user's and then one of the assistant's, nothing else.
HistoryShape ==
    /\ Len(messages) = 2 * Len(turns)
    /\ \A i \in 1..Len(turns) :
         /\ messages[2 * i - 1] = [role |-> "user", content |-> turns[i].prompt]
         /\ messages[2 * i].role = "assistant"

\* C14: every prompt adds the user's message and then one assistant
\* message, so the history has even length, alternates user and assistant
\* and keeps every earlier message; when the backend call failed the
\* assistant message is "Error: " followed by a text.
C14_TwoMessagesPerPromptErrorOnFailure ==
    /\ HistoryShape
    /\ \A i \in 1..Len(turns) :
         BackendFailed(turns[i].post) => messages[2 * i].content \in ErrorMessages

====
